---- MODULE Spec2Model ----
(***************************************************************************)
(* serverless-shared-api-gateway: the compileEvents pipeline of            *)
(* src/src/index.js (class ServerlessSharedApiGateway) as a state machine. *)
(*                                                                         *)
(* A run is one call of compileEvents: read the provider configuration,    *)
(* findRestApi (getRestApis, possibly createRestApi), loadResourcesForApi  *)
(* (paged getResources), findResourceId, _updateReferencesInCloudFormation *)
(* and _findAndRemoveExistingResources.  The control state `pc` is the     *)
(* position of the async function; an awaited API call is a state in which *)
(* the request has been logged in `calls` and the response is pending.     *)
(*                                                                         *)
(* Encoding of JavaScript values                                           *)
(*   - undefined / null / absent string: the empty string "" (falsy);      *)
(*   - a template value (string, {Ref}, {Fn::GetAtt}, array): a record     *)
(*     [t, v, items] built by Str, Ref, GetAtt, Arr; Nil is an absent      *)
(*     property.  GetAtt keeps the logical name (element 0 of the pair);   *)
(*     the attribute name is never read by the code;                       *)
(*   - a continuation token (position): the offset into the gateway's      *)
(*     resource list, 0 standing for null.                                 *)
(***************************************************************************)
EXTENDS Integers, Sequences, FiniteSets, TLC

VARIABLES
    pc,                          \* position inside compileEvents
    error,                       \* which throw / rejection ended the run ("" = none)
    provider,                    \* serverless.service.provider: apiGatewayRestApi{Id,Name,ResourceId}, restApiResourceId
    restApiId,                   \* this.restApiId
    restApiName,                 \* this.restApiName
    restApiResourceId,           \* this.restApiResourceId
    apiGatewayRestApiLogicalId,  \* plugin.apiGatewayRestApiLogicalId of the compile plugin
    resources,                   \* this.resources
    loaded,                      \* FALSE while this.resources is null
    currentPosition,             \* local of loadResourcesForApi
    Resources,                   \* compiledCloudFormationTemplate.Resources
    Outputs,                     \* compiledCloudFormationTemplate.Outputs.ServiceEndpoint.Value['Fn::Join']
    apis,                        \* the account's REST APIs (server side)
    remote,                      \* the resolved gateway's resources (server side)
    calls,                       \* requests issued so far, in order
    pages,                       \* per getResources response: [from, to, position]
    template0,                   \* the template as handed over by the build step
    provider0                    \* the provider configuration as written by the user

vars == <<pc, error, provider, restApiId, restApiName, restApiResourceId,
          apiGatewayRestApiLogicalId, resources, loaded, currentPosition,
          Resources, Outputs, apis, remote, calls, pages, template0, provider0>>

(***************************************************************************)
(* Bounds of the model.                                                    *)
(***************************************************************************)
\* PathResource nodes per template (all parent shapes over 0..MaxNodes nodes)
MaxNodes == 2
\* full pages the largest gateway of FetchSpec holds
MaxFullPages == 3

\* limit: 500 of the getResources request
Limit == 500

(***************************************************************************)
(* Template values.                                                        *)
(***************************************************************************)
Nil == [t |-> "Nil", v |-> "", items |-> <<>>]
Str(s) == [t |-> "Str", v |-> s, items |-> <<>>]
Ref(k) == [t |-> "Ref", v |-> k, items |-> <<>>]
GetAtt(k) == [t |-> "GetAtt", v |-> k, items |-> <<>>]
Arr(s) == [t |-> "Arr", v |-> "", items |-> s]

Node(type, api, parent, rid, part, arn) ==
    [Type |-> type, RestApiId |-> api, ParentId |-> parent,
     ResourceId |-> rid, PathPart |-> part, SourceArn |-> arn]

TRestApi == "AWS::ApiGateway::RestApi"
TResource == "AWS::ApiGateway::Resource"
TMethod == "AWS::ApiGateway::Method"
TDeployment == "AWS::ApiGateway::Deployment"
TPermission == "AWS::Lambda::Permission"
TFunction == "AWS::Lambda::Function"
TBasePathMapping == "AWS::ApiGateway::BasePathMapping"

(***************************************************************************)
(* Logical names of the build step (Serverless naming): the i-th path      *)
(* resource, the method on it, the method on the gateway root.             *)
(***************************************************************************)
ResKeys == <<"ApiGatewayResourceUsers", "ApiGatewayResourceIdVar",
             "ApiGatewayResourcePosts", "ApiGatewayResourceTags">>
MethodKeys == <<"ApiGatewayMethodUsersGet", "ApiGatewayMethodIdVarGet",
                "ApiGatewayMethodPostsGet", "ApiGatewayMethodTagsGet">>
PathParts == <<"users", "{id}", "posts", "tags">>
RootMethodKey == "ApiGatewayMethodGet"
DeploymentKey == "ApiGatewayDeployment1"
PermissionKey == "HelloLambdaPermissionApiGateway"
FunctionKey == "HelloLambdaFunction"
PathMappingKey == "pathmapping"
DefaultLogicalId == "ApiGatewayRestApi"
LogicalIds == {DefaultLogicalId, "SharedRestApi"}

Range(s) == {s[i] : i \in 1..Len(s)}

\* /^ApiGateway(Resource|Method|Deployment)/.test(key) over the names above
IsResourceMethodDeploymentKey(key) ==
    key \in Range(ResKeys) \cup Range(MethodKeys) \cup {RootMethodKey, DeploymentKey}

\* /.+?LambdaPermissionApiGateway$/.test(key) over the names above
IsLambdaPermissionKey(key) == key = PermissionKey

(***************************************************************************)
(* Inputs: templates of the build step.  A shape gives each of the n path  *)
(* resources its parent: 0 is the gateway root (the attachment-point       *)
(* placeholder Fn::GetAtt [<RestApi>, RootResourceId]), j < i the j-th     *)
(* path resource ({Ref: <its key>}).                                       *)
(***************************************************************************)
ShapesOf(n) == {s \in [1..n -> 0..n] : \A i \in 1..n : s[i] < i}
AllShapes == UNION {ShapesOf(n) : n \in 0..MaxNodes}
Variants == {1, 2, 3}

IndexOf(seq, k) == CHOOSE i \in 1..Len(seq) : seq[i] = k

\* Fn::Join value of the Lambda permission's SourceArn
PermissionArn(variant, lid) ==
    CASE variant = 1 ->
           Arr(<<Str(""), Arr(<<Str("arn:"), Ref("AWS::Partition"), Str(":execute-api:"),
                                Ref("AWS::Region"), Str(":"), Ref(lid), Str("/*/*")>>)>>)
      [] variant = 2 ->
           Arr(<<Str(""), Arr(<<Str("arn:"), Arr(<<Ref(lid), Str("/"), GetAtt(lid)>>),
                                GetAtt(FunctionKey), Str("/*")>>)>>)
      [] OTHER ->
           Arr(<<Str(""), Arr(<<Str("arn:"), Ref("AWS::Region")>>)>>)

\* Fn::Join value of Outputs.ServiceEndpoint.Value (Nil: no such output)
EndpointValue(variant, lid) ==
    CASE variant = 1 ->
           Arr(<<Str(""), Arr(<<Str("https://"), Ref(lid), Str(".execute-api."),
                                Ref("AWS::Region"), Str("/dev")>>)>>)
      [] variant = 2 ->
           Arr(<<Str(""), Arr(<<Str("https://"), Ref(lid), Str("/"), GetAtt(lid),
                                Arr(<<Str("."), Ref("AWS::URLSuffix")>>)>>)>>)
      [] OTHER -> Nil

TemplateKeys(shape, variant, lid) ==
    {lid, DeploymentKey, PermissionKey, FunctionKey}
        \cup {ResKeys[i] : i \in 1..Len(shape)}
        \cup {MethodKeys[i] : i \in 1..Len(shape)}
        \cup (IF variant = 2 THEN {RootMethodKey, PathMappingKey} ELSE {})

TemplateResources(shape, variant, lid) ==
    [k \in TemplateKeys(shape, variant, lid) |->
        CASE k = lid -> Node(TRestApi, Nil, Nil, Nil, "", Nil)
          [] k = DeploymentKey -> Node(TDeployment, Ref(lid), Nil, Nil, "", Nil)
          [] k = PermissionKey ->
                Node(TPermission, Nil, Nil, Nil, "", PermissionArn(variant, lid))
          [] k = FunctionKey -> Node(TFunction, Nil, Nil, Nil, "", Nil)
          [] k = RootMethodKey -> Node(TMethod, Ref(lid), Nil, GetAtt(lid), "", Nil)
          [] k = PathMappingKey -> Node(TBasePathMapping, Ref(lid), Nil, Nil, "", Nil)
          [] k \in Range(ResKeys) ->
                LET i == IndexOf(ResKeys, k) IN
                Node(TResource, Ref(lid),
                     IF shape[i] = 0 THEN GetAtt(lid) ELSE Ref(ResKeys[shape[i]]),
                     Nil, PathParts[i], Nil)
          [] OTHER ->
                LET i == IndexOf(MethodKeys, k) IN
                Node(TMethod, Ref(lid), Nil, Ref(ResKeys[i]), "", Nil)]

(***************************************************************************)
(* Inputs: what the gateway administration API holds.                      *)
(***************************************************************************)
RootId == "r0"
LiveIds == <<"r1", "r2", "r3", "r4">>
NewApiId == "a9"

Resource(id, path, part, parent) ==
    [id |-> id, path |-> path, pathPart |-> part, parentId |-> parent]
RootResource == Resource(RootId, "/", "", "")

RECURSIVE PathOf(_, _)
PathOf(shape, i) ==
    (IF shape[i] = 0 THEN "" ELSE PathOf(shape, shape[i])) \o "/" \o PathParts[i]

\* the resources of a gateway on which the path resources of `shape` are deployed
LiveOf(shape) ==
    <<RootResource>> \o
    [i \in 1..Len(shape) |->
        Resource(LiveIds[i], PathOf(shape, i), PathParts[i],
                 IF shape[i] = 0 THEN RootId ELSE LiveIds[shape[i]])]

LiveSets == {LiveOf(s) : s \in AllShapes} \cup {Tail(LiveOf(s)) : s \in ShapesOf(1)}

Api(id, name) == [id |-> id, name |-> name]
ApiLists == { <<>>,
              <<Api("a1", "shared")>>,
              <<Api("a2", "other"), Api("a1", "shared")>>,
              <<Api("a1", "shared"), Api("a2", "shared")>>,
              <<Api("a1", "other")>> }

Providers == [apiGatewayRestApiId : {"", "a1", "a0"},
              apiGatewayRestApiName : {"", "shared"},
              apiGatewayRestApiResourceId : {"", "r1", "rX"},
              restApiResourceId : {""}]

\* a gateway with n resources: filler resources first, then those of LiveOf(shape)
Filler(i) == Resource("f" \o ToString(i), "/f" \o ToString(i), "f" \o ToString(i), RootId)
Padded(n, base) ==
    IF n <= Len(base) THEN SubSeq(base, 1, n)
    ELSE [i \in 1..(n - Len(base)) |-> Filler(i)] \o base
BigSizes == {k * Limit + d : k \in 0..MaxFullPages, d \in {0, 2}}

(***************************************************************************)
(* The synchronous helpers of the plugin, as operators.                    *)
(***************************************************************************)
Truthy(s) == s # ""

\* _findMatchingRestApi (index.js 157-161) with the two tests in the other order
findMatchingRestApiNameFirst(api, id, name) ==
    IF Truthy(name) THEN api.name = name
    ELSE IF Truthy(id) THEN api.id = id
    ELSE FALSE

\* _findMatchingRestApi (index.js 157-161), with this.restApiId / this.restApiName
findMatchingRestApi(api, id, name) ==
    IF Truthy(id) THEN api.id = id
    ELSE IF Truthy(name) THEN api.name = name
    ELSE FALSE

\* the check of index.js 136 with the second negation lost
MissingConfigurationNameSet(id, name) == ~Truthy(id) /\ Truthy(name)

\* index.js 136: !this.restApiId && !this.restApiName
MissingConfiguration(id, name) == ~Truthy(id) /\ ~Truthy(name)

\* the test of index.js 177 without !matchingRestApi
ShouldCreateWheneverNamed(found, name) == Truthy(name)

\* index.js 177: this.restApiName && !matchingRestApi
ShouldCreate(found, name) == Truthy(name) /\ found = {}

\* the guards of index.js 223-224 without the one on this.resources
MissingPreconditionIdOnly(id, isLoaded) == ~Truthy(id)

\* index.js 223-224: !this.restApiId, !this.resources
MissingPrecondition(id, isLoaded) == ~Truthy(id) \/ ~isLoaded

\* the check of index.js 171 with the threshold off by one
TooManyMatchesWide(found, name) == Truthy(name) /\ Cardinality(found) > 2

\* index.js 171: more than one gateway matches while a name is configured
TooManyMatches(found, name) == Truthy(name) /\ Cardinality(found) > 1

\* the loop condition of index.js 153 without the page-size test
hasMoreResultsTokenOnly(position, n) == position # 0

\* index.js 153: hasMoreResults = position && items.length === 500
hasMoreResults(position, n) == position # 0 /\ n = Limit

\* Array.prototype.find: the first of the indices that satisfy the callback
First(S) == CHOOSE i \in S : \A j \in S : i <= j

\* one element of _sourceArnReplaceRestApi's map callback that is no array
\* (index.js 86-88)
ReplaceItem(item, lid, apiId, resId) ==
    IF item.t = "Ref" /\ Truthy(item.v) /\ item.v = lid THEN Str(apiId)
    ELSE IF item.t = "GetAtt" THEN Str(resId)
    ELSE item

\* _sourceArnReplaceRestApi (index.js 83-90) on the items of an array
RECURSIVE sourceArnReplaceRestApi(_, _, _, _)
sourceArnReplaceRestApi(arr, lid, apiId, resId) ==
    [i \in 1..Len(arr) |->
        IF arr[i].t = "Arr"
        THEN Arr(sourceArnReplaceRestApi(arr[i].items, lid, apiId, resId))
        ELSE ReplaceItem(arr[i], lid, apiId, resId)]

\* value['Fn::Join'] = this._sourceArnReplaceRestApi(value['Fn::Join'])
ReplaceJoin(value, lid, apiId, resId) ==
    Arr(sourceArnReplaceRestApi(value.items, lid, apiId, resId))

\* index.js 106: if (Resources.ApiGatewayRestApi) delete Resources.ApiGatewayRestApi
RemoveRestApi(R) == [k \in DOMAIN R \ {DefaultLogicalId} |-> R[k]]

\* index.js 109: the custom domain's path mapping
SetPathMapping(R, apiId) ==
    IF PathMappingKey \in DOMAIN R
    THEN [R EXCEPT ![PathMappingKey].RestApiId = Str(apiId)]
    ELSE R

\* index.js 116: Properties.RestApiId of a Resource, Method or Deployment
SetRestApiId(node, lid, apiId) ==
    IF node.RestApiId.t = "Ref" /\ Truthy(node.RestApiId.v) /\ node.RestApiId.v = lid
    THEN [node EXCEPT !.RestApiId = Str(apiId)]
    ELSE node

\* index.js 118: Properties.ParentId of a Resource, Method or Deployment
SetParentId(node, resId) ==
    IF node.ParentId.t = "GetAtt" THEN [node EXCEPT !.ParentId = Str(resId)] ELSE node

\* the forEach of index.js 111-123 without the tests of lines 114 and 116
UpdateNodesEveryKey(R, lid, apiId, resId) ==
    [k \in DOMAIN R |-> SetParentId([R[k] EXCEPT !.RestApiId = Str(apiId)], resId)]

\* index.js 111-123: the forEach over the keys that are left
UpdateNodes(R, lid, apiId, resId) ==
    IF Truthy(lid)
    THEN [k \in DOMAIN R |->
            IF IsResourceMethodDeploymentKey(k)
            THEN SetParentId(SetRestApiId(R[k], lid, apiId), resId)
            ELSE IF IsLambdaPermissionKey(k)
            THEN [R[k] EXCEPT !.SourceArn = ReplaceJoin(R[k].SourceArn, lid, apiId, resId)]
            ELSE R[k]]
    ELSE R

\* _updateReferencesInCloudFormation (index.js 92-129): the Resources it leaves
updateReferencesResources(R, lid, apiId, resId) ==
    UpdateNodes(SetPathMapping(RemoveRestApi(R), apiId), lid, apiId, resId)

\* _updateReferencesInCloudFormation (index.js 125-128): the endpoint output it leaves
updateReferencesOutputs(out, lid, apiId, resId) ==
    IF out.t = "Arr" THEN ReplaceJoin(out, lid, apiId, resId) ELSE out

\* the match of index.js 193 without the parent: r.pathPart === PathPart alone
MatchesOfPathPartOnly(res, item) ==
    {i \in 1..Len(res) : res[i].pathPart = item.PathPart}

\* the live resources that match a template node (index.js 193)
MatchesOf(res, item) ==
    {i \in 1..Len(res) : /\ res[i].pathPart = item.PathPart
                          /\ item.ParentId.t = "Str"
                          /\ res[i].parentId = item.ParentId.v}

\* findExistingResources (index.js 186-198): key -> {id, parentId} of the first match
findExistingResources(R, res) ==
    LET keys == {k \in DOMAIN R : R[k].Type = TResource /\ MatchesOf(res, R[k]) # {}}
    IN  [k \in keys |->
            LET m == res[First(MatchesOf(res, R[k]))]
            IN  [id |-> m.id, parentId |-> m.parentId]]

\* index.js 205-207: delete the existing resources from the template
RemoveExisting(R, existing) == [k \in DOMAIN R \ DOMAIN existing |-> R[k]]

\* index.js 210-217: repoint the remaining resources to the existing parent
RepairParents(R, existing) ==
    [k \in DOMAIN R |->
        IF /\ R[k].Type = TResource
           /\ R[k].ParentId.t = "Ref"
           /\ R[k].ParentId.v \in DOMAIN existing
        THEN [R[k] EXCEPT !.ParentId = Str(existing[R[k].ParentId.v].id)]
        ELSE R[k]]

\* _findAndRemoveExistingResources without the repair of index.js 210-217
findAndRemoveWithoutRepair(R, res) == RemoveExisting(R, findExistingResources(R, res))

\* _findAndRemoveExistingResources (index.js 200-218)
findAndRemoveExistingResources(R, res) ==
    LET existing == findExistingResources(R, res)
    IN  RepairParents(RemoveExisting(R, existing), existing)

\* findResourceId falling back to the root when the configured id is not live
ResourceIdMatchesOrRoot(res, resId) ==
    IF Truthy(resId) /\ \E i \in 1..Len(res) : res[i].id = resId
    THEN {i \in 1..Len(res) : res[i].id = resId}
    ELSE {i \in 1..Len(res) : res[i].path = "/"}

\* findResourceId (index.js 226): the indices of the matching live resources
ResourceIdMatches(res, resId) ==
    {i \in 1..Len(res) : IF Truthy(resId) THEN res[i].id = resId ELSE res[i].path = "/"}

(***************************************************************************)
(* Requests to the gateway administration API, as logged in `calls`.       *)
(***************************************************************************)
Call(op, id, position, limit, name) ==
    [op |-> op, restApiId |-> id, position |-> position, limit |-> limit, name |-> name]
GetRestApisCall == Call("getRestApis", "", 0, 0, "")
CreateRestApiCall(name) == Call("createRestApi", "", 0, 0, name)
\* the request of index.js 150 without the position
GetResourcesCallFromStart(id, position) == Call("getResources", id, 0, Limit, "")

\* index.js 150: getResources({restApiId, position, limit: 500})
GetResourcesCall(id, position) == Call("getResources", id, position, Limit, "")

Min(a, b) == IF a < b THEN a ELSE b

Throw(kind) ==
    /\ pc' = "error"
    /\ error' = kind

(***************************************************************************)
(* The state after construction (index.js 7-16) and the inputs of a run.   *)
(***************************************************************************)
InitPlugin ==
    /\ pc = "start"
    /\ error = ""
    /\ restApiId = ""
    /\ restApiName = ""
    /\ restApiResourceId = ""
    /\ resources = <<>>
    /\ loaded = FALSE
    /\ currentPosition = 0
    /\ calls = <<>>
    /\ pages = <<>>

InitTemplate(shapes, variants) ==
    /\ apiGatewayRestApiLogicalId \in LogicalIds
    /\ \E shape \in shapes, variant \in variants :
          /\ Resources = TemplateResources(shape, variant, apiGatewayRestApiLogicalId)
          /\ Outputs = EndpointValue(variant, apiGatewayRestApiLogicalId)
    /\ template0 = [Resources |-> Resources, Outputs |-> Outputs]

Init ==
    /\ InitPlugin
    /\ provider \in Providers
    /\ provider0 = provider
    /\ InitTemplate(AllShapes, Variants)
    /\ apis \in ApiLists
    /\ remote \in LiveSets

\* gateways that hold up to MaxFullPages full pages of resources
FetchInit ==
    /\ InitPlugin
    /\ provider \in {p \in Providers : p.apiGatewayRestApiResourceId = ""
                                       /\ p.apiGatewayRestApiId # "a0"}
    /\ provider0 = provider
    /\ InitTemplate(ShapesOf(1), {1})
    /\ apis \in {<<>>, <<Api("a1", "shared")>>}
    /\ remote \in {Padded(n, LiveOf(s)) : n \in BigSizes, s \in ShapesOf(1)}

(***************************************************************************)
(* compileEvents (index.js 131-143), one action per step between awaits.   *)
(***************************************************************************)
\* index.js 146-150: the prologue of loadResourcesForApi and its first request
StartLoad(id) ==
    /\ resources' = <<>>
    /\ loaded' = TRUE
    /\ currentPosition' = 0
    /\ calls' = Append(calls, GetResourcesCall(id, 0))
    /\ pc' = "getResources"
    /\ error' = error

\* index.js 132-138 and 164-166: read the configuration, request the gateways
compileEvents ==
    /\ pc = "start"
    /\ restApiId' = provider.apiGatewayRestApiId
    /\ restApiName' = provider.apiGatewayRestApiName
    /\ restApiResourceId' = provider.apiGatewayRestApiResourceId
    /\ IF MissingConfiguration(provider.apiGatewayRestApiId, provider.apiGatewayRestApiName)
       THEN Throw("Configuration") /\ calls' = calls
       ELSE /\ pc' = "getRestApis"
            /\ error' = error
            /\ calls' = Append(calls, GetRestApisCall)
    /\ UNCHANGED <<provider, apiGatewayRestApiLogicalId, resources, loaded, currentPosition,
                   Resources, Outputs, apis, remote, pages, template0, provider0>>

\* index.js 166-183: findRestApi once getRestApis has answered.  items is the
\* list the API returns (always an array, so the return of line 167 is not taken);
\* the override of provider.naming.getApiGatewayName (172-173) touches no state
\* that is modelled.
findRestApi ==
    /\ pc = "getRestApis"
    /\ LET items == apis
           found == {i \in 1..Len(items) :
                        findMatchingRestApi(items[i], restApiId, restApiName)}
       IN  IF TooManyMatches(found, restApiName)
           THEN /\ Throw("AmbiguousMatch")
                /\ UNCHANGED <<restApiId, restApiName, resources, loaded, currentPosition, calls>>
           ELSE IF ShouldCreate(found, restApiName)
           THEN /\ pc' = "createRestApi"
                /\ calls' = Append(calls, CreateRestApiCall(restApiName))
                /\ UNCHANGED <<error, restApiId, restApiName, resources, loaded, currentPosition>>
           ELSE IF found = {}
           THEN /\ Throw("TypeError")
                /\ UNCHANGED <<restApiId, restApiName, resources, loaded, currentPosition, calls>>
           ELSE /\ restApiId' = items[First(found)].id
                /\ restApiName' = items[First(found)].name
                /\ StartLoad(items[First(found)].id)
    /\ UNCHANGED <<provider, restApiResourceId, apiGatewayRestApiLogicalId,
                   Resources, Outputs, apis, remote, pages, template0, provider0>>

\* index.js 63-76 and 179-183: the gateway is created and becomes the resolved one
createRestApi ==
    /\ pc = "createRestApi"
    /\ apis' = Append(apis, Api(NewApiId, restApiName))
    /\ remote' = <<RootResource>>
    /\ restApiId' = NewApiId
    /\ restApiName' = restApiName
    /\ StartLoad(NewApiId)
    /\ UNCHANGED <<provider, restApiResourceId, apiGatewayRestApiLogicalId,
                   Resources, Outputs, pages, template0, provider0>>

\* index.js 150-154: one page of getResources arrives
loadResourcesForApi ==
    /\ pc = "getResources"
    /\ LET request == calls[Len(calls)]
           to == Min(request.position + request.limit, Len(remote))
           items == SubSeq(remote, request.position + 1, to)
       IN  \E position \in (IF to < Len(remote) THEN {to} ELSE {0, to}) :
              /\ resources' = resources \o items
              /\ currentPosition' = position
              /\ pages' = Append(pages, [from |-> request.position + 1, to |-> to,
                                         position |-> position])
              /\ IF hasMoreResults(position, Len(items))
                 THEN /\ pc' = "getResources"
                      /\ calls' = Append(calls, GetResourcesCall(restApiId, currentPosition'))
                 ELSE /\ pc' = "findResourceId"
                      /\ calls' = calls
    /\ UNCHANGED <<error, provider, restApiId, restApiName, restApiResourceId,
                   apiGatewayRestApiLogicalId, loaded, Resources, Outputs, apis, remote,
                   template0, provider0>>

\* a request of the gateway administration API is rejected: the await throws
upstreamError ==
    /\ pc \in {"getRestApis", "createRestApi", "getResources"}
    /\ Throw("Upstream")
    /\ UNCHANGED <<provider, restApiId, restApiName, restApiResourceId,
                   apiGatewayRestApiLogicalId, resources, loaded, currentPosition,
                   Resources, Outputs, apis, remote, calls, pages, template0, provider0>>

\* findResourceId (index.js 220-230) with a template mutation ahead of the throw
findResourceIdMutatingFirst ==
    /\ LET found == ResourceIdMatches(resources, restApiResourceId)
       IN  IF MissingPrecondition(restApiId, loaded)
           THEN Throw("Precondition") /\ UNCHANGED <<restApiResourceId, Resources>>
           ELSE IF found = {}
           THEN /\ Throw("NotFound")
                /\ Resources' = RemoveRestApi(Resources)
                /\ restApiResourceId' = restApiResourceId
           ELSE /\ restApiResourceId' = resources[First(found)].id
                /\ pc' = "updateReferences"
                /\ UNCHANGED <<error, Resources>>
    /\ UNCHANGED <<provider, restApiId, restApiName, apiGatewayRestApiLogicalId,
                   resources, loaded, currentPosition, Outputs, apis, remote,
                   calls, pages, template0, provider0>>

\* the body of findResourceId (index.js 220-230)
findResourceIdBody ==
    /\ LET found == ResourceIdMatches(resources, restApiResourceId)
       IN  IF MissingPrecondition(restApiId, loaded)
           THEN Throw("Precondition") /\ restApiResourceId' = restApiResourceId
           ELSE IF found = {}
           THEN Throw("NotFound") /\ restApiResourceId' = restApiResourceId
           ELSE /\ restApiResourceId' = resources[First(found)].id
                /\ pc' = "updateReferences"
                /\ error' = error
    /\ UNCHANGED <<provider, restApiId, restApiName, apiGatewayRestApiLogicalId,
                   resources, loaded, currentPosition, Resources, Outputs, apis, remote,
                   calls, pages, template0, provider0>>

\* index.js 140: compileEvents calls findResourceId
findResourceId ==
    /\ pc = "findResourceId"
    /\ findResourceIdBody

\* _updateReferencesInCloudFormation (index.js 92-129); lines 97 and 100 write the
\* resolved ids back to the provider
updateReferencesInCloudFormation ==
    /\ pc = "updateReferences"
    /\ Resources' = updateReferencesResources(Resources, apiGatewayRestApiLogicalId,
                                              restApiId, restApiResourceId)
    /\ Outputs' = updateReferencesOutputs(Outputs, apiGatewayRestApiLogicalId,
                                          restApiId, restApiResourceId)
    /\ provider' = [provider EXCEPT !.apiGatewayRestApiId = restApiId,
                                    !.restApiResourceId = restApiResourceId]
    /\ pc' = "findAndRemove"
    /\ UNCHANGED <<error, restApiId, restApiName, restApiResourceId,
                   apiGatewayRestApiLogicalId, resources, loaded, currentPosition,
                   apis, remote, calls, pages, template0, provider0>>

\* the body of _findAndRemoveExistingResources (index.js 200-218); the guard is
\* that of findExistingResources (index.js 187)
removeExistingResourcesBody ==
    /\ IF ~loaded
       THEN Throw("Precondition") /\ Resources' = Resources
       ELSE /\ Resources' = findAndRemoveExistingResources(Resources, resources)
            /\ pc' = "done"
            /\ error' = error
    /\ UNCHANGED <<provider, restApiId, restApiName, restApiResourceId,
                   apiGatewayRestApiLogicalId, resources, loaded, currentPosition,
                   Outputs, apis, remote, calls, pages, template0, provider0>>

\* index.js 142: compileEvents calls _findAndRemoveExistingResources
removeExistingResources ==
    /\ pc = "findAndRemove"
    /\ removeExistingResourcesBody

(***************************************************************************)
(* The two guarded methods called out of order: by a caller other than     *)
(* compileEvents, before loadResourcesForApi has set this.resources.       *)
(***************************************************************************)
NotYetLoading == pc \in {"start", "getRestApis", "createRestApi"}

\* findResourceId (index.js 220-230) called directly
callFindResourceId ==
    /\ NotYetLoading
    /\ findResourceIdBody

\* _findAndRemoveExistingResources (index.js 200-218) called directly
callFindAndRemoveExistingResources ==
    /\ NotYetLoading
    /\ removeExistingResourcesBody

Next ==
    \/ compileEvents
    \/ findRestApi
    \/ createRestApi
    \/ loadResourcesForApi
    \/ upstreamError
    \/ findResourceId
    \/ updateReferencesInCloudFormation
    \/ removeExistingResources

Spec == Init /\ [][Next]_vars

FetchSpec == FetchInit /\ [][Next]_vars

\* compileEvents, and the guarded methods called at any moment before the load
NextOrDirectCall ==
    \/ Next
    \/ callFindResourceId
    \/ callFindAndRemoveExistingResources

DirectCallSpec == Init /\ [][NextOrDirectCall]_vars

(***************************************************************************)
(* Vocabulary of the properties.                                           *)
(***************************************************************************)
Done == pc = "done"
PathResourceKeys(R) == {k \in DOMAIN R : R[k].Type = TResource}
Removed == DOMAIN template0.Resources \ DOMAIN Resources
LiveIdSet == {resources[i].id : i \in 1..Len(resources)}
\* the template after gateway substitution (phase 1), recomputed from the input
Substituted ==
    updateReferencesResources(template0.Resources, apiGatewayRestApiLogicalId,
                              restApiId, restApiResourceId)
\* a live resource with this pathPart under this parent id
LiveUnder(res, part, parent) ==
    \E i \in 1..Len(res) : res[i].pathPart = part /\ res[i].parentId = parent

(***************************************************************************)
(* C1  Dangling-parent invariant.  After a successful reconciliation the   *)
(* ParentId of every PathResource left in the template is either a Ref to  *)
(* a PathResource that is also left, or the id of a live resource; none    *)
(* names a node that was deleted.                                          *)
(***************************************************************************)
C1_NoDanglingParent ==
    Done =>
        \A k \in PathResourceKeys(Resources) :
            LET p == Resources[k].ParentId IN
            /\ p.t \in {"Ref", "GetAtt"} => p.v \notin Removed
            /\ \/ p.t = "Ref" /\ p.v \in PathResourceKeys(Resources)
               \/ p.t = "Str" /\ p.v \in LiveIdSet

\* a PathResource survives whose declared parent was removed as redundant
C1_Witness ==
    /\ Done
    /\ \E k \in PathResourceKeys(Resources) :
          /\ template0.Resources[k].ParentId.t = "Ref"
          /\ template0.Resources[k].ParentId.v \in Removed
          /\ Resources[k].ParentId.t = "Str"

(***************************************************************************)
(* C2  Idempotence across a deployment.  Reconcile, deploy the surviving   *)
(* PathResources (each becomes a live resource with a fresh id, here its   *)
(* logical name, under the parent it resolved to), reconcile the original  *)
(* template against the extended live set: no PathResource remains.        *)
(***************************************************************************)
DeployedParent(R, k) == R[k].ParentId.v

RECURSIVE DeployedPath(_, _, _)
DeployedPath(R, res, k) ==
    LET p == R[k].ParentId
        up == IF p.t = "Ref" /\ p.v \in DOMAIN R
              THEN DeployedPath(R, res, p.v)
              ELSE IF \E i \in 1..Len(res) : res[i].id = p.v /\ res[i].path # "/"
              THEN res[CHOOSE i \in 1..Len(res) : res[i].id = p.v].path
              ELSE ""
    IN  up \o "/" \o R[k].PathPart

\* the live set once the PathResources of the reconciled template R exist
Deploy(R, res) ==
    LET left == SelectSeq(ResKeys, LAMBDA k : k \in PathResourceKeys(R))
    IN  res \o [i \in 1..Len(left) |->
                   Resource(left[i], DeployedPath(R, res, left[i]), R[left[i]].PathPart,
                            DeployedParent(R, left[i]))]

SecondRun == findAndRemoveExistingResources(Substituted, Deploy(Resources, resources))

C2_IdempotentAfterDeploy == Done => PathResourceKeys(SecondRun) = {}

(***************************************************************************)
(* C3  No-duplicate-path invariant.  After a successful reconciliation no  *)
(* PathResource left in the template has the pathPart of a live resource   *)
(* under the parent id the PathResource resolved to.                       *)
(***************************************************************************)
C3_NoDuplicatePath ==
    Done =>
        \A k \in PathResourceKeys(Resources) :
            Resources[k].ParentId.t = "Str" =>
                ~LiveUnder(resources, Resources[k].PathPart, Resources[k].ParentId.v)

(***************************************************************************)
(* C4  After a successful reconciliation the GatewayRoot node, the node    *)
(* under the logical name the other nodes reference as the gateway, is not *)
(* in the template, whatever that logical name is.                         *)
(***************************************************************************)
C4_GatewayRootRemoved ==
    Done => /\ apiGatewayRestApiLogicalId \notin DOMAIN Resources
            /\ \A k \in DOMAIN Resources : Resources[k].Type # TRestApi

(***************************************************************************)
(* C5  Gateway substitution is complete.  After a successful               *)
(* reconciliation nothing in the template refers to the GatewayRoot's      *)
(* logical name: no property of a node, no fragment of a Permission's      *)
(* SourceArn at any depth, no fragment of the endpoint output.             *)
(***************************************************************************)
RefersTo(value, name) == value.t \in {"Ref", "GetAtt"} /\ value.v = name

RECURSIVE Mentions(_, _)
Mentions(value, name) ==
    IF value.t = "Arr"
    THEN \E i \in 1..Len(value.items) : Mentions(value.items[i], name)
    ELSE RefersTo(value, name)

NodeMentions(node, name) ==
    \/ RefersTo(node.RestApiId, name)
    \/ RefersTo(node.ParentId, name)
    \/ RefersTo(node.ResourceId, name)
    \/ Mentions(node.SourceArn, name)

C5_SubstitutionComplete ==
    Done => /\ \A k \in DOMAIN Resources \ {apiGatewayRestApiLogicalId} :
                  ~NodeMentions(Resources[k], apiGatewayRestApiLogicalId)
            /\ ~Mentions(Outputs, apiGatewayRestApiLogicalId)

(***************************************************************************)
(* C6  Frame of the substitution in a structured reference expression.     *)
(* After a successful reconciliation the Permission's SourceArn and the    *)
(* endpoint output have the shape they had; a fragment differs from the    *)
(* input only where the input fragment was a reference to the GatewayRoot  *)
(* (Ref, or the attachment-point placeholder Fn::GetAtt of it).            *)
(***************************************************************************)
RECURSIVE OnlyMatchingReplaced(_, _, _)
OnlyMatchingReplaced(before, after, name) ==
    IF before.t = "Arr"
    THEN /\ after.t = "Arr"
         /\ Len(after.items) = Len(before.items)
         /\ \A i \in 1..Len(before.items) :
               OnlyMatchingReplaced(before.items[i], after.items[i], name)
    ELSE RefersTo(before, name) \/ after = before

C6_OnlyMatchingFragmentsReplaced ==
    Done => /\ \A k \in DOMAIN Resources :
                  OnlyMatchingReplaced(template0.Resources[k].SourceArn,
                                       Resources[k].SourceArn, apiGatewayRestApiLogicalId)
            /\ OnlyMatchingReplaced(template0.Outputs, Outputs, apiGatewayRestApiLogicalId)

(***************************************************************************)
(* C7  Resource-matching criterion.  A PathResource of the input template  *)
(* is removed exactly when a live resource has its pathPart and, as        *)
(* parentId, the parent the node is resolved to when the matching runs:    *)
(* the attachment point for a node under the placeholder (a node under     *)
(* another PathResource is unresolved then).  A node under the placeholder *)
(* that is kept has the attachment point's id as ParentId; a kept          *)
(* PathResource whose parent was removed has the id of the first live      *)
(* resource that matched the parent.                                       *)
(***************************************************************************)
UnderPlaceholder(k) == template0.Resources[k].ParentId.t = "GetAtt"

MatchedLiveId(k) ==
    LET hit == {i \in 1..Len(resources) :
                   /\ resources[i].pathPart = template0.Resources[k].PathPart
                   /\ resources[i].parentId = restApiResourceId}
    IN  resources[First(hit)].id

LiveApis == SelectSeq(apis, LAMBDA api : api.id # NewApiId)
NameIsAmbiguous ==
    /\ Truthy(provider0.apiGatewayRestApiName)
    /\ Cardinality({i \in 1..Len(LiveApis) :
                       LiveApis[i].name = provider0.apiGatewayRestApiName}) >= 2
\* getRestApis has answered and findRestApi has run on the answer
ListAnswered ==
    /\ Len(calls) >= 1
    /\ pc # "getRestApis"
    /\ ~(error = "Upstream" /\ Len(calls) = 1)
AmbiguousAbort ==
    /\ pc = "error"
    /\ error = "AmbiguousMatch"
    /\ calls = <<GetRestApisCall>>
    /\ apis = LiveApis
    /\ ~loaded
    /\ pages = <<>>
    /\ Resources = template0.Resources
    /\ Outputs = template0.Outputs
    /\ provider = provider0

\* C8 as claimed
C8_AmbiguousNameFails == (ListAnswered /\ NameIsAmbiguous) => AmbiguousAbort

\* C8 as amended: no gateway id is configured
C8_AmbiguousNameFailsWithoutId ==
    (ListAnswered /\ NameIsAmbiguous /\ ~Truthy(provider0.apiGatewayRestApiId))
        => AmbiguousAbort

C8_Witness ==
    /\ ListAnswered
    /\ NameIsAmbiguous
    /\ ~Truthy(provider0.apiGatewayRestApiId)
    /\ error = "AmbiguousMatch"

(***************************************************************************)
(* C9  Pagination.  Every response but the last carried a token and was    *)
(* full-sized; once loading has ended the last response was short or had   *)
(* no token, one request was made per response, and this.resources is the  *)
(* concatenation of the returned pages in request order.  Three full pages *)
(* followed by a short one are fetched with exactly four requests.         *)
(***************************************************************************)
PageLen(page) == page.to - page.from + 1
IsFull(page) == PageLen(page) = Limit
FetchCalls == SelectSeq(calls, LAMBDA c : c.op = "getResources")
LoadFinished == loaded /\ pc # "getResources" /\ error # "Upstream"

RECURSIVE ConcatPages(_)
ConcatPages(n) ==
    IF n = 0 THEN <<>>
    ELSE ConcatPages(n - 1) \o SubSeq(remote, pages[n].from, pages[n].to)

C9_Pagination ==
    /\ \A i \in 1..(Len(pages) - 1) : pages[i].position # 0 /\ IsFull(pages[i])
    /\ loaded => resources = ConcatPages(Len(pages))
    /\ LoadFinished =>
          /\ Len(pages) >= 1
          /\ pages[Len(pages)].position = 0 \/ ~IsFull(pages[Len(pages)])
          /\ Len(FetchCalls) = Len(pages)
    /\ (LoadFinished /\ Len(pages) >= 4 /\ ~IsFull(pages[4])
            /\ \A i \in 1..3 : IsFull(pages[i]))
          => Len(FetchCalls) = 4 /\ Len(resources) = 3 * Limit + PageLen(pages[4])

\* three full pages, then a short page that still carries a token
C9_Witness ==
    /\ LoadFinished
    /\ Len(pages) = 4
    /\ \A i \in 1..3 : IsFull(pages[i])
    /\ PageLen(pages[4]) = 2
    /\ pages[4].position # 0
    /\ Len(FetchCalls) = 4

(***************************************************************************)
(* C10  Attachment-point resolution.  Once findResourceId has run: with a  *)
(* configured parent resource id that is live, the attachment point is     *)
(* that resource; with one that is not live the run has failed with the    *)
(* not-found error (no fall back to the root); with none configured the    *)
(* attachment point is the live resource of path "/", and the run has      *)
(* failed with the not-found error if there is none.                       *)
(***************************************************************************)
AttachResolved == pc \in {"updateReferences", "findAndRemove", "done"}
ResolutionTried == LoadFinished /\ pc # "findResourceId"
RootIds == {resources[i].id : i \in {j \in 1..Len(resources) : resources[j].path = "/"}}
NotFoundAbort ==
    /\ pc = "error"
    /\ error = "NotFound"
    /\ restApiResourceId = provider0.apiGatewayRestApiResourceId

C10_AttachmentPoint ==
    ResolutionTried =>
        IF Truthy(provider0.apiGatewayRestApiResourceId)
        THEN IF provider0.apiGatewayRestApiResourceId \in LiveIdSet
             THEN AttachResolved /\ restApiResourceId = provider0.apiGatewayRestApiResourceId
             ELSE NotFoundAbort
        ELSE IF RootIds # {}
             THEN AttachResolved /\ restApiResourceId \in RootIds
             ELSE NotFoundAbort

\* an explicit id that is not live, on a gateway that has a root
C10_Witness ==
    /\ ResolutionTried
    /\ Truthy(provider0.apiGatewayRestApiResourceId)
    /\ provider0.apiGatewayRestApiResourceId \notin LiveIdSet
    /\ RootIds # {}
    /\ error = "NotFound"

(***************************************************************************)
(* Errors and the template.                                                *)
(***************************************************************************)
Failed == pc = "error"
TemplateUntouched ==
    /\ Resources = template0.Resources
    /\ Outputs = template0.Outputs

\* C11: whenever a run has ended in an error, of whatever kind (configuration,
\* ambiguous match, failed fetch, attachment point not found, precondition,
\* or the TypeError of index.js 182), the template is the input template.
C11_ErrorLeavesTemplate == Failed => TemplateUntouched

\* a run that listed the gateways and fetched every page before it failed
C11_Witness ==
    /\ Failed
    /\ error = "NotFound"
    /\ LoadFinished
    /\ Len(pages) >= 1
    /\ \E k \in DOMAIN Resources : Resources[k].Type = TRestApi

(***************************************************************************)
(* The configuration check.                                                *)
(***************************************************************************)
NothingConfigured ==
    /\ ~Truthy(provider0.apiGatewayRestApiId)
    /\ ~Truthy(provider0.apiGatewayRestApiName)
Started == pc # "start"

\* C12: with neither a gateway id nor a gateway name configured, a started run
\* has failed with the configuration error and has called none of getRestApis,
\* createRestApi, getResources; and a configuration error is raised with no
\* such call made.
C12_ConfigurationErrorFirst ==
    /\ (NothingConfigured /\ Started) =>
           (Failed /\ error = "Configuration" /\ calls = <<>>)
    /\ (Failed /\ error = "Configuration") => (NothingConfigured /\ calls = <<>>)

\* the run of a plugin without id and name, after compileEvents has thrown
C12_Witness ==
    /\ NothingConfigured
    /\ Failed
    /\ error = "Configuration"
    /\ calls = <<>>
    /\ apis # <<>>

(***************************************************************************)
(* Creation of a gateway.                                                  *)
(***************************************************************************)
CreateCalls == SelectSeq(calls, LAMBDA c : c.op = "createRestApi")
LiveNamed(name) == {i \in 1..Len(LiveApis) : LiveApis[i].name = name}
LiveMatching ==
    {i \in 1..Len(LiveApis) :
        findMatchingRestApi(LiveApis[i], provider0.apiGatewayRestApiId,
                            provider0.apiGatewayRestApiName)}
GatewayResolved == FetchCalls # <<>>

\* C13: createRestApi is called at most once in a run, and only when a name
\* is configured and no live gateway has that name; a run that resolved its
\* gateway without creating one has the id of a live gateway, the only match.
C13_CreationGuarded ==
    /\ Len(CreateCalls) <= 1
    /\ CreateCalls # <<>> =>
          /\ Truthy(provider0.apiGatewayRestApiName)
          /\ CreateCalls[1].name = provider0.apiGatewayRestApiName
          /\ LiveNamed(provider0.apiGatewayRestApiName) = {}
    /\ (GatewayResolved /\ CreateCalls = <<>>) =>
          /\ apis = LiveApis
          /\ Cardinality(LiveMatching) = 1
          /\ \A i \in LiveMatching : LiveApis[i].id = restApiId

(***************************************************************************)
(* References to removed nodes.                                            *)
(***************************************************************************)
\* C14: after a successful reconciliation no node that is left and no
\* fragment of the endpoint output refers (ParentId, a Method's ResourceId,
\* RestApiId, a SourceArn fragment) to the logical name of a node the run
\* removed, be it the GatewayRoot or a redundant PathResource.
C14_NoReferenceToRemoved ==
    Done => \A name \in Removed :
               /\ \A k \in DOMAIN Resources : ~NodeMentions(Resources[k], name)
               /\ ~Mentions(Outputs, name)

(***************************************************************************)
(* Order of the phases, and the guards of the two methods that need the    *)
(* fetched list.                                                           *)
(***************************************************************************)
\* every getResources request follows the answered getRestApis request and
\* names the gateway findRestApi resolved
ResolvedBeforeFetch ==
    \A i \in 1..Len(calls) :
        calls[i].op = "getResources" =>
            /\ i > 1
            /\ calls[1].op = "getRestApis"
            /\ pc # "getRestApis"
            /\ Truthy(calls[i].restApiId)
            /\ calls[i].restApiId = restApiId
            /\ \E j \in 1..Len(apis) : apis[j].id = restApiId

\* the attachment point is looked up in the complete list only
FetchedBeforeAttach ==
    (\/ AttachResolved
     \/ Failed /\ error = "NotFound"
     \/ restApiResourceId \notin {"", provider0.apiGatewayRestApiResourceId})
        => LoadFinished

\* the template and the provider are written after both
AttachedBeforeWrite ==
    (~TemplateUntouched \/ provider # provider0) => (LoadFinished /\ AttachResolved)

\* a direct call of a guarded method before the load throws and changes nothing
DirectCallThrows ==
    (callFindResourceId \/ callFindAndRemoveExistingResources) =>
        /\ pc' = "error"
        /\ error' = "Precondition"
        /\ UNCHANGED <<provider, restApiId, restApiName, restApiResourceId,
                       apiGatewayRestApiLogicalId, resources, loaded, currentPosition,
                       Resources, Outputs, apis, remote, calls, pages>>

BothConfigured ==
    /\ Truthy(provider0.apiGatewayRestApiId)
    /\ Truthy(provider0.apiGatewayRestApiName)

\* C16: with an id and a name configured, a run that resolved its gateway
\* resolved the live gateway of the configured id, whatever number of live
\* gateways have the configured name, and created none.
C16_IdWins ==
    (BothConfigured /\ GatewayResolved) =>
        /\ restApiId = provider0.apiGatewayRestApiId
        /\ \E i \in 1..Len(LiveApis) :
              /\ LiveApis[i].id = restApiId
              /\ LiveApis[i].name = restApiName
        /\ CreateCalls = <<>>

IdIsLive ==
    \E i \in 1..Len(LiveApis) : LiveApis[i].id = provider0.apiGatewayRestApiId

\* C16 (amended): with an id and a name configured and a live gateway of that
\* id, the run raises no ambiguous-match error and creates no gateway, and
\* once resolved its gateway is the live gateway of the configured id, be
\* there no, one or two live gateways of the configured name.
C16_IdWinsWhenLive ==
    (BothConfigured /\ IdIsLive) =>
        /\ ~(Failed /\ error \in {"AmbiguousMatch", "TypeError"})
        /\ CreateCalls = <<>>
        /\ GatewayResolved =>
              /\ restApiId = provider0.apiGatewayRestApiId
              /\ \E i \in 1..Len(LiveApis) :
                    /\ LiveApis[i].id = restApiId
                    /\ LiveApis[i].name = restApiName

\* resolved by id although two live gateways have the configured name
C16_Witness ==
    /\ BothConfigured
    /\ IdIsLive
    /\ Done
    /\ Cardinality(LiveNamed(provider0.apiGatewayRestApiName)) = 2
    /\ restApiId = provider0.apiGatewayRestApiId

(***************************************************************************)
(* The sequence of getResources requests.                                  *)
(***************************************************************************)
Outstanding == Len(FetchCalls) - Len(pages)

\* C17: the first getResources request carries no position; each later one
\* carries the position the response just before it returned; a request is
\* sent only after the previous one was answered, so at most one is
\* outstanding; all name the resolved gateway and the limit of 500; no
\* other request is made in between.
C17_SequentialPaging ==
    /\ Outstanding \in {0, 1}
    /\ pc = "getResources" => Outstanding = 1
    /\ Outstanding = 1 => (pc = "getResources" \/ (Failed /\ error = "Upstream"))
    /\ \A i \in 1..Len(FetchCalls) :
          /\ FetchCalls[i].restApiId = restApiId
          /\ Truthy(FetchCalls[i].restApiId)
          /\ FetchCalls[i].limit = Limit
          /\ FetchCalls[i].position = (IF i = 1 THEN 0 ELSE pages[i - 1].position)
          /\ i > 1 => FetchCalls[i].position # 0
    /\ \A i, j \in 1..Len(calls) :
          (i < j /\ calls[i].op = "getResources") => calls[j].op = "getResources"

\* a load of four requests, the last one sent with the third token
C17_Witness ==
    /\ LoadFinished
    /\ Len(FetchCalls) = 4
    /\ FetchCalls[1].position = 0
    /\ FetchCalls[4].position = 3 * Limit
    /\ pages[3].position = 3 * Limit

(***************************************************************************)
(* The reconciler run again on its own output.                             *)
(***************************************************************************)
\* _updateReferencesInCloudFormation and _findAndRemoveExistingResources
\* (index.js 141-142) applied to the template as it is now, with the same
\* gateway id, attachment point and list of live resources
ResourcesReconciledAgain ==
    findAndRemoveExistingResources(
        updateReferencesResources(Resources, apiGatewayRestApiLogicalId,
                                  restApiId, restApiResourceId),
        resources)
OutputsReconciledAgain ==
    updateReferencesOutputs(Outputs, apiGatewayRestApiLogicalId,
                            restApiId, restApiResourceId)

\* C18: after a successful reconciliation, reconciling the resulting
\* template once more against the same gateway, attachment point and live
\* resources yields that template again: no node goes, no reference changes.
C18_Fixpoint ==
    Done => /\ ResourcesReconciledAgain = Resources
            /\ OutputsReconciledAgain = Outputs

(***************************************************************************)
(* What a successful reconciliation leaves alone.                          *)
(***************************************************************************)
GatewayTypes ==
    {TRestApi, TResource, TMethod, TDeployment, TPermission, TBasePathMapping}

\* the node is the input node but for RestApiId, for ParentId and, on a
\* Method, for the reference to its resource
SameButReferences(node, before) ==
    /\ node.Type = before.Type
    /\ node.PathPart = before.PathPart
    /\ node.SourceArn = before.SourceArn
    /\ before.Type # TMethod => node.ResourceId = before.ResourceId

\* C19: after a successful reconciliation the template has no new node; a
\* node that is no GatewayRoot, PathResource, Method, Deployment, Permission
\* or path mapping is there as it was; Methods and Deployments are all there;
\* a PathResource, Method or Deployment that is there differs from the input
\* node in its gateway reference and parent reference at most (PathPart and
\* the rest as before); and the list of live resources is the list fetched.
C19_Frame ==
    Done =>
        /\ DOMAIN Resources \subseteq DOMAIN template0.Resources
        /\ \A k \in DOMAIN template0.Resources :
              /\ template0.Resources[k].Type \notin GatewayTypes =>
                    (k \in DOMAIN Resources /\ Resources[k] = template0.Resources[k])
              /\ template0.Resources[k].Type \in {TMethod, TDeployment} =>
                    k \in DOMAIN Resources
              /\ (/\ template0.Resources[k].Type \in {TResource, TMethod, TDeployment}
                  /\ k \in DOMAIN Resources) =>
                    SameButReferences(Resources[k], template0.Resources[k])
        /\ resources = ConcatPages(Len(pages))
        /\ \A i \in 1..Len(resources) : resources[i] = remote[i]

\* a run that removed a PathResource and repointed another, next to a function
C19_Witness ==
    /\ Done
    /\ FunctionKey \in DOMAIN Resources
    /\ \E k \in Removed : template0.Resources[k].Type = TResource
    /\ \E k \in PathResourceKeys(Resources) :
          /\ Resources[k].ParentId # template0.Resources[k].ParentId
          /\ Resources[k].RestApiId # template0.Resources[k].RestApiId
          /\ Resources[k].PathPart = template0.Resources[k].PathPart
    /\ \E k \in DOMAIN Resources : Resources[k].Type = TMethod

====
